---- MODULE Spec2Model ----
(***************************************************************************)
(* JobRecommendationEngine (src/src/recommendation_engine.py): the engine  *)
(* object with its three fields, the model file on disk, and the four      *)
(* operations train, calculate_match, save_model and load_model; and, of   *)
(* src/server.py, the handler of /api/recommendations and the background   *)
(* job fetch with its status dict.                                         *)
(*                                                                         *)
(* Numbers are fixed point.  A score on the 0..1 scale is an integer in    *)
(* 0..Unit (1e-4 steps); a percentage rounded to 2 decimals is an integer  *)
(* in 0..Unit as well (0.01 % steps).  TF-IDF weights are in 1/100.        *)
(***************************************************************************)
EXTENDS Integers, Sequences, FiniteSets, TLC

VARIABLES engine, disk, dirs, last, trained, saved, job_fetch_status, threads,
          credentials

vars == <<engine, disk, dirs, last, trained, saved, job_fetch_status, threads,
         credentials>>

(***************************************************************************)
(* Bounds of the model                                                     *)
(***************************************************************************)
\* longest corpus handed to train
MaxCorpusLen == 3
\* largest top_n handed to calculate_match
MaxTopN == 3
\* largest number written in an experience text handed to the parser alone
MaxYearsInText == 3
\* most background fetch threads alive at once
MaxFetchThreads == 2

(***************************************************************************)
(* Small helpers                                                           *)
(***************************************************************************)
Min(a, b) == IF a < b THEN a ELSE b

Max(a, b) == IF a > b THEN a ELSE b

Range(s) == {s[i] : i \in DOMAIN s}

RECURSIVE SumOver(_, _)
SumOver(f, S) ==
    IF S = {} THEN 0
    ELSE LET x == CHOOSE y \in S : TRUE
         IN f[x] + SumOver(f, S \ {x})

(***************************************************************************)
(* Python values                                                           *)
(***************************************************************************)
\* Python's None in an engine field
None == [kind |-> "None"]

\* a missing cell of a text column (NaN)
NaN == <<"<NaN>">>

\* a missing cell of the location column
NaNLoc == "<NaN>"

\* str.lower() on the strings of the model
LowerTab ==
    [s \in {"Python", "Django", "Java", "Spring", "Flask", "Developer", "Engineer",
            "Software", "Backend", "The", "And", "Any", "ANY", "Bangalore", "Mumbai",
            "Remote", "Other", "Unknown", "India", "Pune", "SQL", "AWS", " Python",
            "Powai Iit, Mumbai", "Kochi, India", "Senior", "Leadership",
            "All Locations"} |->
        CASE s = "Python" -> "python"
          [] s = "Django" -> "django"
          [] s = "Java" -> "java"
          [] s = "Spring" -> "spring"
          [] s = "Flask" -> "flask"
          [] s = "Developer" -> "developer"
          [] s = "Engineer" -> "engineer"
          [] s = "Software" -> "software"
          [] s = "Backend" -> "backend"
          [] s = "The" -> "the"
          [] s = "And" -> "and"
          [] s = "Any" -> "any"
          [] s = "ANY" -> "any"
          [] s = "Bangalore" -> "bangalore"
          [] s = "Mumbai" -> "mumbai"
          [] s = "Remote" -> "remote"
          [] s = "Other" -> "other"
          [] s = "Unknown" -> "unknown"
          [] s = "India" -> "india"
          [] s = "Pune" -> "pune"
          [] s = "SQL" -> "sql"
          [] s = "AWS" -> "aws"
          [] s = " Python" -> " python"
          [] s = "Powai Iit, Mumbai" -> "powai iit, mumbai"
          [] s = "Kochi, India" -> "kochi, india"
          [] s = "Senior" -> "senior"
          [] s = "Leadership" -> "leadership"
          [] s = "All Locations" -> "all locations"]

Lower(s) == IF s \in DOMAIN LowerTab THEN LowerTab[s] ELSE s

\* str.strip() on the strings of the model
Strip(s) ==
    CASE s = " Django" -> "Django"
      [] s = " Spring" -> "Spring"
      [] s = " Flask" -> "Flask"
      [] s = " python" -> "python"
      [] s = " Python" -> "Python"
      [] s = " Java" -> "Java"
      [] s = " SQL" -> "SQL"
      [] s = " AWS" -> "AWS"
      [] OTHER -> s

(***************************************************************************)
(* TfidfVectorizer(max_features=500, stop_words='english',                 *)
(*                 ngram_range=(1, 2))                                     *)
(***************************************************************************)
max_features == 500

\* the words of the model that are on the English stop list
StopWords == {"the", "and", "of", "in"}

\* the default token pattern keeps words of two or more characters
ShortWords == {"c", "r"}

\* fillna(''): a missing cell contributes no text
fillna(text) == IF text = NaN THEN <<>> ELSE text

\* lower-cased tokens of a text, short words and stop words removed
Tokens(text) ==
    LET low == [i \in DOMAIN text |-> Lower(text[i])]
    IN SelectSeq(low, LAMBDA w : w \notin StopWords /\ w \notin ShortWords)

\* the unigrams followed by the bigrams of a text, as a sequence of terms
Ngrams(text) ==
    LET t == Tokens(text)
    IN [i \in 1..Len(t) |-> <<t[i]>>] \o
       [i \in 1..(Len(t) - 1) |-> <<t[i], t[i + 1]>>]

\* how often a term occurs in a text
TermCount(term, text) ==
    LET g == Ngrams(text) IN Cardinality({i \in DOMAIN g : g[i] = term})

\* 100 * ln(k), k = 1..8
LnCenti == <<0, 69, 110, 139, 161, 179, 195, 208>>

\* smoothed inverse document frequency, in 1/100: ln((1+n)/(1+df)) + 1
Idf(n, df) == LnCenti[n + 1] - LnCenti[df + 1] + 100

\* the terms of a list of documents
CorpusTerms(docs) == UNION {Range(Ngrams(docs[i])) : i \in DOMAIN docs}

\* fit: the IDF table over the vocabulary of the documents
\* (max_features keeps the most frequent terms; ties as CHOOSE picks them)
FitIdf(docs) ==
    LET all == CorpusTerms(docs)
        tf == [t \in all |-> SumOver([i \in DOMAIN docs |-> TermCount(t, docs[i])],
                                     DOMAIN docs)]
        terms == IF Cardinality(all) <= max_features THEN all
                 ELSE CHOOSE S \in SUBSET all :
                          /\ Cardinality(S) = max_features
                          /\ \A x \in S, y \in all \ S : tf[x] >= tf[y]
        df(t) == Cardinality({i \in DOMAIN docs : t \in Range(Ngrams(docs[i]))})
    IN [t \in terms |-> Idf(Len(docs), df(t))]

\* transform: the TF-IDF weights of one text over a fitted vocabulary;
\* terms outside the vocabulary are dropped
TransformOne(idf, text) == [t \in DOMAIN idf |-> TermCount(t, text) * idf[t]]

Transform(idf, docs) == [i \in DOMAIN docs |-> TransformOne(idf, docs[i])]

\* a vectorizer object: constructed (unfitted) or fitted
UnfittedVectorizer == [kind |-> "TfidfVectorizer", fitted |-> FALSE]

FittedVectorizer(idf) == [kind |-> "TfidfVectorizer", fitted |-> TRUE, idf |-> idf]

\* hasattr(vectorizer, 'idf_') and vectorizer.idf_ is not None
HasIdf(v) == v.kind = "TfidfVectorizer" /\ v.fitted

(***************************************************************************)
(* Job postings and corpora (the DataFrame handed to train)                *)
(***************************************************************************)
\* an experience text: the digit runs re.findall(r'\d+') finds in it, in order,
\* and its other words; na marks a missing cell
ExpText(nums, words) == [na |-> FALSE, nums |-> nums, words |-> words]

ExpEmpty == ExpText(<<>>, <<>>)

ExpNaN == [na |-> TRUE, nums |-> <<>>, words |-> <<>>]

Posting(id, title, skills, description, experience, location) ==
    [job_id |-> id, title |-> title, skills |-> skills, description |-> description,
     experience |-> experience, location |-> location]

\* the postings corpora are built from
Pool ==
    << Posting("J1", NaN, <<"Python", " Django">>, NaN,
               ExpText(<<2, 5>>, <<"years">>), "Bangalore"),
       Posting("J2", NaN, <<"Java", " Spring">>, NaN,
               ExpText(<<5, 10>>, <<"years">>), "Mumbai"),
       Posting("J3", NaN, <<"Python", " Flask">>, NaN,
               ExpText(<<>>, <<"fresher">>), "Remote"),
       Posting("J4", <<"Backend", "Developer">>, <<"Python">>, <<"the", "backend">>,
               ExpEmpty, "Powai Iit, Mumbai"),
       Posting("J5", NaN, NaN, <<"the", "and">>, ExpNaN, NaNLoc),
       Posting("J6", NaN, <<"Python", " Java", " Spring", " Flask", " Django", " SQL", " AWS">>,
               NaN, ExpText(<<>>, <<"senior">>), "Kochi, India") >>

\* which postings, in which order, a corpus holds
CorpusShapes == {<<>>, <<4>>, <<5>>, <<1, 2>>, <<1, 2, 3>>, <<2, 3, 4, 5>>}

AllCols == {"job_id", "title", "skills", "description", "experience", "location"}

DataFrame(cols, rows) == [kind |-> "DataFrame", cols |-> cols, rows |-> rows]

RowsOf(shape) == [i \in DOMAIN shape |-> Pool[shape[i]]]

\* the corpora train is called with: complete ones, and one without a title column
CorpusInputs ==
    {DataFrame(AllCols, RowsOf(sh)) : sh \in {x \in CorpusShapes : Len(x) <= MaxCorpusLen}}
    \cup {DataFrame(AllCols \ {"title"}, RowsOf(<<3, 4>>))}

\* further corpora for the scoring rules: a posting with seven skills and a
\* posting without skills text, experience and location; a posting with an
\* empty experience text and a posting with an experience range
MoreCorpusInputs == {DataFrame(AllCols, RowsOf(<<6, 5>>)), DataFrame(AllCols, RowsOf(<<4, 1>>))}

\* the words of a comma-separated skills cell (each entry of the model is one word)
SkillWords(skills) == [i \in DOMAIN skills |-> Strip(skills[i])]

\* title + ' ' + skills + ' ' + description, missing cells as ''
CombinedText(row) ==
    fillna(row.title) \o SkillWords(fillna(row.skills)) \o fillna(row.description)

\* jobs_df with the combined_text column added
WithCombinedText(df) ==
    DataFrame(df.cols \cup {"combined_text"},
              [i \in DOMAIN df.rows |->
                  df.rows[i] @@ ("combined_text" :> CombinedText(df.rows[i]))])

(***************************************************************************)
(* Fixed-point arithmetic                                                  *)
(***************************************************************************)
\* 1.0 on the 0..1 scale, and 100.00 on the percent scale
Unit == 10000

\* a / b in 1/Unit, digit by digit (a >= 0, b > 0)
RECURSIVE DivDigits(_, _, _, _)
DivDigits(a, b, scale, acc) ==
    IF scale = 0 THEN acc
    ELSE DivDigits((a % b) * 10, b, scale \div 10, acc + (a \div b) * scale)

Ratio(a, b) == DivDigits(a, b, Unit, 0)

\* the integer square root, by bisection
RECURSIVE SqrtBetween(_, _, _)
SqrtBetween(x, lo, hi) ==
    IF hi - lo <= 1 THEN lo
    ELSE LET mid == (lo + hi) \div 2
         IN IF mid * mid <= x THEN SqrtBetween(x, mid, hi) ELSE SqrtBetween(x, lo, mid)

ISqrt(x) == SqrtBetween(x, 0, 46341)

\* numpy's round: to the nearest integer, halves to the even neighbour
RoundHalfEven(num, den) ==
    LET q == num \div den
        r == num % den
    IN IF 2 * r < den THEN q
       ELSE IF 2 * r > den THEN q + 1
       ELSE IF q % 2 = 0 THEN q ELSE q + 1

(***************************************************************************)
(* cosine_similarity(user_vector, job_vectors)                             *)
(***************************************************************************)
Dot(u, v) == SumOver([t \in DOMAIN u |-> u[t] * v[t]], DOMAIN u)

\* the cosine of two weight vectors in 1/Unit; 0 when either is all zero
Cosine(u, v) ==
    LET d == Dot(u, v)
        uu == Dot(u, u)
        vv == Dot(v, v)
    IN IF uu = 0 \/ vv = 0 THEN 0
       ELSE Min(Unit, ISqrt(Ratio(d, uu) * Ratio(d, vv)))

(***************************************************************************)
(* _parse_experience_years and _calculate_experience_match                 *)
(***************************************************************************)
YearsRange(lo, hi) == [kind |-> "tuple", lo |-> lo, hi |-> hi]

\* str(job_exp): a missing cell becomes the text 'nan'
StrOfExp(exp) == IF exp.na THEN ExpText(<<>>, <<"nan">>) ELSE exp

\* the keywords of the parser that are substrings of a lower-case word
KeywordsIn(word) ==
    CASE word \in {"fresher", "freshers"} -> {"fresher"}
      [] word = "entry" -> {"entry"}
      [] word = "senior" -> {"senior"}
      [] word \in {"lead", "leadership"} -> {"lead"}
      [] OTHER -> {}

\* keyword in exp_string, after exp_string = str(exp_string).lower()
InText(keyword, exp) == \E i \in DOMAIN exp.words : keyword \in KeywordsIn(Lower(exp.words[i]))

ParseSeniorBeforeFresher(exp) ==
    IF exp.na \/ exp = ExpEmpty THEN None
    ELSE IF Len(exp.nums) >= 2 THEN YearsRange(exp.nums[1], exp.nums[2])
    ELSE IF Len(exp.nums) = 1 THEN YearsRange(exp.nums[1], exp.nums[1] + 2)
    ELSE IF InText("senior", exp) \/ InText("lead", exp) THEN YearsRange(5, 10)
    ELSE IF InText("fresher", exp) \/ InText("entry", exp) THEN YearsRange(0, 2)
    ELSE YearsRange(2, 5)

_parse_experience_years(exp) ==
    IF exp.na \/ exp = ExpEmpty THEN None
    ELSE IF Len(exp.nums) >= 2 THEN YearsRange(exp.nums[1], exp.nums[2])
    ELSE IF Len(exp.nums) = 1 THEN YearsRange(exp.nums[1], exp.nums[1] + 2)
    ELSE IF InText("fresher", exp) \/ InText("entry", exp) THEN YearsRange(0, 2)
    ELSE IF InText("senior", exp) \/ InText("lead", exp) THEN YearsRange(5, 10)
    ELSE YearsRange(2, 5)

\* the experience strings handed to the parser alone: up to three numbers and
\* some words, the empty string and a missing value
ExperienceWordInputs ==
    { <<>>, <<"years">>, <<"fresher">>, <<"entry">>, <<"Senior">>, <<"Leadership">>,
      <<"senior", "fresher">>, <<"entry", "lead">>, <<"nan">> }

ExperienceNumberInputs ==
    UNION {[1..n -> 0..MaxYearsInText] : n \in 0..3}

ExperienceInputs ==
    {ExpText(nums, words) : nums \in ExperienceNumberInputs, words \in ExperienceWordInputs}
    \cup {ExpNaN}

\* whether user_years >= job_years[0] can be evaluated: Python orders an int
\* with an int, and raises TypeError for a tuple or None against an int
Orderable(user_years) == user_years.kind = "int"

\* the score appended for one job, or "TypeError" when the comparison raises
ExperienceScore(user_years, job_years) ==
    IF job_years = None THEN Unit \div 2
    ELSE IF ~Orderable(user_years) THEN -1
    ELSE IF user_years.n >= job_years.lo /\ user_years.n <= job_years.hi THEN Unit
    ELSE IF user_years.n < job_years.lo
    THEN Max(0, Unit - (job_years.lo - user_years.n) * (Unit \div 5))
    ELSE (Unit \div 10) * 9

\* the array of scores; np.zeros when the loop raised
_calculate_experience_match(user_exp, job_exps) ==
    LET user_years == _parse_experience_years(user_exp)
        scores == [i \in DOMAIN job_exps |->
                      ExperienceScore(user_years,
                                      _parse_experience_years(StrOfExp(job_exps[i])))]
    IN IF \E i \in DOMAIN scores : scores[i] = -1
       THEN [i \in DOMAIN job_exps |-> 0]
       ELSE scores

(***************************************************************************)
(* normalize_location (src/src/data_loader.py) and                         *)
(* _calculate_location_match                                               *)
(***************************************************************************)
\* city_keywords, in the order the dict is iterated
city_keywords ==
    << [city |-> "Mumbai", keywords |-> {"mumbai", "powai", "goregaon", "andheri", "charni",
                                         "prabhadevi", "trombay", "nana peth"}],
       [city |-> "Bangalore", keywords |-> {"bangalore", "madivala", "muthusandra",
                                            "banasavangee"}],
       [city |-> "Hyderabad", keywords |-> {"hyderabad", "kyasaram"}],
       [city |-> "Pune", keywords |-> {"pune", "baner", "vadgaon", "hadapsar", "warje",
                                       "nana peth"}],
       [city |-> "Chennai", keywords |-> {"chennai", "injambakkam", "chintadripet",
                                          "ttti taramani", "egmore", "gopalapuram"}],
       [city |-> "Delhi", keywords |-> {"delhi", "new delhi", "north delhi", "south delhi",
                                        "chandni chowk", "timarpur", "jeevan park",
                                        "lajpat nagar", "sarita vihar", "sansad marg"}],
       [city |-> "Remote", keywords |-> {"remote"}] >>

\* the keywords (and 'india') that occur in str(location).strip().lower()
SubstringsOf(loc) ==
    CASE loc \in {"Bangalore", "bangalore"} -> {"bangalore"}
      [] loc \in {"Mumbai", "mumbai"} -> {"mumbai"}
      [] loc = "Powai Iit, Mumbai" -> {"powai", "mumbai"}
      [] loc = "Powai" -> {"powai"}
      [] loc = "Nana Peth, Pune" -> {"nana peth", "pune"}
      [] loc = "Pune" -> {"pune"}
      [] loc \in {"Remote", "remote"} -> {"remote"}
      [] loc = "Kochi, India" -> {"india"}
      [] OTHER -> {}

normalize_location(loc) ==
    IF loc = NaNLoc THEN "Unknown"
    ELSE LET hits == {i \in DOMAIN city_keywords :
                         city_keywords[i].keywords \cap SubstringsOf(loc) # {}}
         IN IF hits # {}
            THEN city_keywords[CHOOSE i \in hits : \A j \in hits : i <= j].city
            ELSE IF "india" \in SubstringsOf(loc) THEN "India"
            ELSE "Other"

\* 'remote' in normalized_job_loc: only the canonical name remote contains it
ContainsRemote(name) == name = "remote"

LocationMatchEmptyOnly(user_location, job_locs) ==
    IF user_location = ""
    THEN [i \in DOMAIN job_locs |-> Unit]
    ELSE [i \in DOMAIN job_locs |->
             LET normalized_job_loc == Lower(normalize_location(job_locs[i]))
             IN IF normalized_job_loc = Lower(user_location) THEN Unit
                ELSE IF ContainsRemote(normalized_job_loc) THEN Unit
                ELSE 0]

_calculate_location_match(user_location, job_locs) ==
    IF user_location = "" \/ Lower(user_location) = "any"
    THEN [i \in DOMAIN job_locs |-> Unit]
    ELSE [i \in DOMAIN job_locs |->
             LET normalized_job_loc == Lower(normalize_location(job_locs[i]))
             IN IF normalized_job_loc = Lower(user_location) THEN Unit
                ELSE IF ContainsRemote(normalized_job_loc) THEN Unit
                ELSE 0]

(***************************************************************************)
(* _get_matched_skills and _get_missing_skills                             *)
(***************************************************************************)
\* [s.strip().lower() for s in str(job_skills_str).split(',')]
JobSkills(cell) == [i \in DOMAIN cell |-> Lower(Strip(cell[i]))]

\* [s.lower() for s in user_skills]
UserSkillsLower(user_skills) == {Lower(user_skills[i]) : i \in DOMAIN user_skills}

MatchedSkillsCaseSensitive(user_skills, cell) ==
    IF cell = NaN THEN <<>>
    ELSE SelectSeq([i \in DOMAIN cell |-> Strip(cell[i])],
                   LAMBDA sk : sk \in UserSkillsLower(user_skills))

_get_matched_skills(user_skills, cell) ==
    IF cell = NaN THEN <<>>
    ELSE SelectSeq(JobSkills(cell), LAMBDA sk : sk \in UserSkillsLower(user_skills))

MissingSkillsUncapped(user_skills, cell) ==
    IF cell = NaN THEN <<>>
    ELSE SelectSeq(JobSkills(cell), LAMBDA sk : sk \notin UserSkillsLower(user_skills))

_get_missing_skills(user_skills, cell) ==
    IF cell = NaN THEN <<>>
    ELSE LET missing == SelectSeq(JobSkills(cell),
                                  LAMBDA sk : sk \notin UserSkillsLower(user_skills))
         IN SubSeq(missing, 1, Min(5, Len(missing)))


(***************************************************************************)
(* The engine and the exceptions it raises                                 *)
(***************************************************************************)
\* __init__: the three fields unset
NewEngineState == [vectorizer |-> None, job_vectors |-> None, jobs_df |-> None]

\* CustomException(e, sys): the domain error, carrying the original exception
CustomException(cause) == [kind |-> "CustomException", cause |-> cause]

Returned(value) == [kind |-> "return", value |-> value]

Raised(cause) == [kind |-> "raise", error |-> CustomException(cause)]

Matrix(rows) == [kind |-> "matrix", rows |-> rows]

(***************************************************************************)
(* train(jobs_df)                                                          *)
(***************************************************************************)
\* the combined texts of a corpus that has the three text columns
Docs(c) == [i \in DOMAIN c.rows |-> CombinedText(c.rows[i])]

HasTextColumns(c) == {"title", "skills", "description"} \subseteq c.cols

\* the user locations of the requests to /api/recommendations
LocationInputs ==
    {"", "Any", "All Locations", "Bangalore", "Mumbai", "Powai Iit, Mumbai", "Remote"}

\* the corpora load_recent_jobs finds in the database
LoadedCorpora ==
    {DataFrame(AllCols, RowsOf(sh)) : sh \in {<<>>, <<1, 2>>, <<1, 2, 3>>, <<4, 1>>}}
    \cup {DataFrame(AllCols \ {"title"}, RowsOf(<<3, 4>>))}

\* the location filter of the handler of /api/recommendations: the postings
\* of jobs_df it keeps for the user's location
LocationFilter(jobs_df, user_location) ==
    IF user_location = "" \/ Lower(user_location) \in {"", "any", "all locations"}
    THEN jobs_df
    ELSE LET normalized_user_loc == Lower(normalize_location(user_location))
             Kept(row) ==
                 LET normalized_location == Lower(normalize_location(row.location))
                 IN \/ normalized_location = normalized_user_loc
                    \/ ContainsRemote(normalized_location)
         IN DataFrame(jobs_df.cols, SelectSeq(jobs_df.rows, Kept))

\* the corpora the handler trains its engine on
FilteredCorpora == {LocationFilter(c, l) : c \in LoadedCorpora, l \in LocationInputs}

\* TfidfVectorizer.fit_transform on every corpus of the model, computed once:
\* the IDF table and the matrix of job vectors
FitTransform ==
    [c \in {x \in CorpusInputs \cup MoreCorpusInputs \cup FilteredCorpora :
               HasTextColumns(x)} |->
        [idf |-> FitIdf(Docs(c)), vectors |-> Transform(FitIdf(Docs(c)), Docs(c))]]

TrainSwallowsError(e, c) ==
    IF c.rows = <<>> THEN [engine |-> e, out |-> Returned("None")]
    ELSE IF ~HasTextColumns(c)
    THEN [engine |-> [e EXCEPT !.jobs_df = c], out |-> Returned("None")]
    ELSE IF DOMAIN FitTransform[c].idf = {}
    THEN [engine |-> [e EXCEPT !.jobs_df = WithCombinedText(c),
                               !.vectorizer = UnfittedVectorizer],
          out |-> Returned("None")]
    ELSE [engine |-> [vectorizer |-> FittedVectorizer(FitTransform[c].idf),
                      job_vectors |-> Matrix(FitTransform[c].vectors),
                      jobs_df |-> WithCombinedText(c)],
          out |-> Returned("None")]

TrainAccumulatesVectors(e, c) ==
    IF c.rows = <<>> THEN [engine |-> e, out |-> Returned("None")]
    ELSE IF ~HasTextColumns(c)
    THEN [engine |-> [e EXCEPT !.jobs_df = c], out |-> Raised("KeyError")]
    ELSE IF DOMAIN FitTransform[c].idf = {}
    THEN [engine |-> [e EXCEPT !.jobs_df = WithCombinedText(c),
                               !.vectorizer = UnfittedVectorizer],
          out |-> Raised("ValueError")]
    ELSE [engine |-> [vectorizer |-> FittedVectorizer(FitTransform[c].idf),
                      job_vectors |-> IF e.job_vectors = None
                                      THEN Matrix(FitTransform[c].vectors)
                                      ELSE Matrix(e.job_vectors.rows \o FitTransform[c].vectors),
                      jobs_df |-> WithCombinedText(c)],
          out |-> Returned("None")]

\* the engine and the outcome of train(c) on engine e, statement by statement
TrainResult(e, c) ==
    IF c.rows = <<>>
    THEN \* line 41-43: empty corpus, return without touching the fields
         [engine |-> e, out |-> Returned("None")]
    ELSE IF ~HasTextColumns(c)
    THEN \* line 45 has run, line 48-52 raises KeyError
         [engine |-> [e EXCEPT !.jobs_df = c], out |-> Raised("KeyError")]
    ELSE IF DOMAIN FitTransform[c].idf = {}
    THEN \* line 55 has run, fit_transform raises ValueError (empty vocabulary)
         [engine |-> [e EXCEPT !.jobs_df = WithCombinedText(c),
                               !.vectorizer = UnfittedVectorizer],
          out |-> Raised("ValueError")]
    ELSE [engine |-> [vectorizer |-> FittedVectorizer(FitTransform[c].idf),
                      job_vectors |-> Matrix(FitTransform[c].vectors),
                      jobs_df |-> WithCombinedText(c)],
          out |-> Returned("None")]

\* what a train that ran to its end leaves in the engine for corpus c
TrainedOn(c) == TrainResult(NewEngineState, c).engine

(***************************************************************************)
(* calculate_match(user_profile, top_n)                                    *)
(***************************************************************************)
Profile(skills, role, experience, location) ==
    [isdict |-> TRUE, skills |-> skills, role |-> role, experience |-> experience,
     location |-> location]

\* a user_profile that is no dict (None): user_profile.get raises AttributeError
NotADict == [isdict |-> FALSE]

\* the profiles calculate_match is called with
ProfileInputs ==
    { Profile(<<"Python", "Django">>, <<"Software", "Engineer">>,
              ExpText(<<3>>, <<"years">>), "Bangalore"),
      Profile(<<"java">>, <<>>, ExpEmpty, ""),
      Profile(<<>>, <<"Developer">>, ExpText(<<>>, <<"senior">>), "Any"),
      NotADict }

\* further profiles for the scoring rules: a user location that is a raw address,
\* the user location Unknown, a profile without a location key, and ANY
MoreProfileInputs ==
    { Profile(<<"Python", "Java">>, <<>>, ExpText(<<5>>, <<"years">>), "Powai Iit, Mumbai"),
      Profile(<<" Python", "Flask">>, <<"Developer">>, ExpText(<<2>>, <<"years">>), "Unknown"),
      [isdict |-> TRUE, skills |-> <<"Django">>, role |-> <<>>, experience |-> ExpEmpty],
      Profile(<<"AWS">>, <<>>, ExpText(<<>>, <<"fresher">>), "ANY") }

\* user_profile.get(key, default)
get(profile, key, default) == IF key \in DOMAIN profile THEN profile[key] ELSE default

TopNInputs == 0..MaxTopN

\* the weights of the three signals, in tenths
SkillsWeight == 7

ExperienceWeight == 2

LocationWeight == 1

MatchScoreWeightsSwapped(skills, experience, location) ==
    RoundHalfEven(ExperienceWeight * skills + SkillsWeight * experience
                  + LocationWeight * location, 10)

MatchScoreLocationWeightOne(skills, experience, location) ==
    RoundHalfEven(SkillsWeight * skills + ExperienceWeight * experience
                  + 10 * location, 10)

\* (final_scores * 100).round(2), in 0.01 %
MatchScore(skills, experience, location) ==
    RoundHalfEven(SkillsWeight * skills + ExperienceWeight * experience
                  + LocationWeight * location, 10)

SortAscending(rows) ==
    LET before(i, j) == \/ rows[i].match_score < rows[j].match_score
                        \/ rows[i].match_score = rows[j].match_score /\ i < j
        pos(i) == 1 + Cardinality({j \in DOMAIN rows : before(j, i)})
    IN [k \in DOMAIN rows |-> rows[CHOOSE i \in DOMAIN rows : pos(i) = k]]

SortKeepsCorpusOrder(rows) == rows

\* sort_values('match_score', ascending=False): ties keep the corpus order
\* (the order numpy gives for the arrays of up to 16 rows of the model)
SortDescending(rows) ==
    LET before(i, j) == \/ rows[i].match_score > rows[j].match_score
                        \/ rows[i].match_score = rows[j].match_score /\ i < j
        pos(i) == 1 + Cardinality({j \in DOMAIN rows : before(j, i)})
    IN [k \in DOMAIN rows |-> rows[CHOOSE i \in DOMAIN rows : pos(i) = k]]

\* DataFrame.head(n) for n >= 0
head(rows, n) == SubSeq(rows, 1, Min(n, Len(rows)))

\* cosine_similarity(user_vector, self.job_vectors).flatten(); with Y = None
\* sklearn compares the query with itself
SkillsSimilarity(e, profile) ==
    LET user_text == SkillWords(get(profile, "skills", <<>>)) \o get(profile, "role", <<>>)
        user_vector == TransformOne(e.vectorizer.idf, user_text)
    IN IF e.job_vectors = None
       THEN <<Cosine(user_vector, user_vector)>>
       ELSE [i \in DOMAIN e.job_vectors.rows |-> Cosine(user_vector, e.job_vectors.rows[i])]

\* whether the job vectors are over the vectorizer's vocabulary and the array of
\* similarities has one entry per row of jobs_df
ShapesAgree(e) ==
    /\ e.job_vectors # None =>
          \A i \in DOMAIN e.job_vectors.rows :
              DOMAIN e.job_vectors.rows[i] = DOMAIN e.vectorizer.idf
    /\ (IF e.job_vectors = None THEN 1 ELSE Len(e.job_vectors.rows)) = Len(e.jobs_df.rows)

\* the rows calculate_match computes on a fitted engine, before sorting
ScoredRows(e, profile) ==
    LET df == e.jobs_df
        user_skills == get(profile, "skills", <<>>)
        skills_similarity == SkillsSimilarity(e, profile)
        experience_match ==
            _calculate_experience_match(get(profile, "experience", ExpEmpty),
                                        [i \in DOMAIN df.rows |-> df.rows[i].experience])
        location_match ==
            _calculate_location_match(get(profile, "location", ""),
                                      [i \in DOMAIN df.rows |-> df.rows[i].location])
    IN [i \in DOMAIN df.rows |->
           [job_id |-> df.rows[i].job_id,
            match_score |-> MatchScore(skills_similarity[i], experience_match[i],
                                       location_match[i]),
            skills_match |-> skills_similarity[i],
            experience_match |-> experience_match[i],
            location_match |-> location_match[i],
            matched_skills |-> _get_matched_skills(user_skills, df.rows[i].skills),
            missing_skills |-> _get_missing_skills(user_skills, df.rows[i].skills)]]

CalculateMatchNoVectorizerCheck(e, profile, top_n) ==
    IF e.jobs_df = None
    THEN [engine |-> e, out |-> Returned(<<>>)]
    ELSE IF ~HasIdf(e.vectorizer) \/ ~profile.isdict
    THEN [engine |-> e, out |-> Raised("AttributeError")]
    ELSE IF ~({"experience", "location", "skills"} \subseteq e.jobs_df.cols)
    THEN [engine |-> e, out |-> Raised("KeyError")]
    ELSE IF ~ShapesAgree(e)
    THEN [engine |-> e, out |-> Raised("ValueError")]
    ELSE [engine |-> e, out |-> Returned(head(SortDescending(ScoredRows(e, profile)), top_n))]

CalculateMatchInPlace(e, profile, top_n) ==
    IF e.vectorizer = None \/ e.jobs_df = None
    THEN [engine |-> e, out |-> Returned(<<>>)]
    ELSE IF ~HasIdf(e.vectorizer)
    THEN [engine |-> e, out |-> Returned(<<>>)]
    ELSE IF ~profile.isdict
    THEN [engine |-> e, out |-> Raised("AttributeError")]
    ELSE IF ~({"experience", "location", "skills"} \subseteq e.jobs_df.cols)
    THEN [engine |-> e, out |-> Raised("KeyError")]
    ELSE IF ~ShapesAgree(e)
    THEN [engine |-> e, out |-> Raised("ValueError")]
    ELSE [engine |-> [e EXCEPT !.jobs_df.cols = @ \cup {"match_score", "skills_match"}],
          out |-> Returned(head(SortDescending(ScoredRows(e, profile)), top_n))]

\* the engine and the outcome of calculate_match(profile, top_n) on engine e
CalculateMatchResult(e, profile, top_n) ==
    IF e.vectorizer = None \/ e.jobs_df = None
    THEN \* line 81-83
         [engine |-> e, out |-> Returned(<<>>)]
    ELSE IF ~HasIdf(e.vectorizer)
    THEN \* line 86-88
         [engine |-> e, out |-> Returned(<<>>)]
    ELSE IF ~profile.isdict
    THEN \* line 91
         [engine |-> e, out |-> Raised("AttributeError")]
    ELSE IF ~({"experience", "location", "skills"} \subseteq e.jobs_df.cols)
    THEN \* line 108, 114, 132
         [engine |-> e, out |-> Raised("KeyError")]
    ELSE IF ~ShapesAgree(e)
    THEN \* line 118-127: arrays of different lengths
         [engine |-> e, out |-> Raised("ValueError")]
    ELSE \* line 125-144: results_df is a copy, the engine is only read
         [engine |-> e, out |-> Returned(head(SortDescending(ScoredRows(e, profile)), top_n))]

(***************************************************************************)
(* The file system, pickle, save_model and load_model                      *)
(***************************************************************************)
\* the paths save_model and load_model are called with
Paths == {"models/recommendation_model.pkl", "model.pkl"}

\* os.path.dirname(filepath)
dirname(path) == IF path = "models/recommendation_model.pkl" THEN "models" ELSE ""

\* no file at the path
NoFile == [kind |-> "absent"]

\* a file that pickle.load cannot deserialize (garbage, or a write cut short)
Corrupt == [kind |-> "bytes"]

\* pickle.dump of a dict: its items, in insertion order
PickleDump(items) == [kind |-> "pickle", items |-> items]

\* model_data of save_model, line 318-322
ModelData(e) ==
    << <<"vectorizer", e.vectorizer>>, <<"job_vectors", e.job_vectors>>,
       <<"jobs_df", e.jobs_df>> >>

\* a pickled dict without the jobs_df key
PartialBlob == PickleDump(<< <<"vectorizer", None>>, <<"job_vectors", None>> >>)

HasKey(items, key) == \E i \in DOMAIN items : items[i][1] = key

\* model_data[key] of the dict pickle.load returns
Lookup(items, key) == items[CHOOSE i \in DOMAIN items : items[i][1] = key][2]

\* what can go wrong under save_model, chosen by the environment:
\* os.makedirs fails, open fails, pickle.dump fails part-way, or nothing fails
SaveFaults == {"none", "makedirs", "open", "dump"}

\* len(self.vectorizer.vocabulary_), line 332, raises unless the vectorizer is fitted
HasVocabulary(v) == HasIdf(v)

SaveModelWithoutJobsDf(e, d, ds, path, fault) ==
    IF dirname(path) = ""
    THEN [engine |-> e, disk |-> d, dirs |-> ds, out |-> Raised("FileNotFoundError")]
    ELSE IF fault = "makedirs"
    THEN [engine |-> e, disk |-> d, dirs |-> ds, out |-> Raised("PermissionError")]
    ELSE IF fault = "open"
    THEN [engine |-> e, disk |-> d, dirs |-> ds \cup {dirname(path)}, out |-> Raised("OSError")]
    ELSE IF fault = "dump"
    THEN [engine |-> e, disk |-> [d EXCEPT ![path] = Corrupt], dirs |-> ds \cup {dirname(path)},
          out |-> Raised("OSError")]
    ELSE [engine |-> e, disk |-> [d EXCEPT ![path] = PickleDump(SubSeq(ModelData(e), 1, 2))],
          dirs |-> ds \cup {dirname(path)},
          out |-> IF HasVocabulary(e.vectorizer) THEN Returned("None")
                  ELSE Raised("AttributeError")]

SaveModelSwallowsError(e, d, ds, path, fault) ==
    IF dirname(path) = "" THEN [engine |-> e, disk |-> d, dirs |-> ds, out |-> Returned("None")]
    ELSE IF fault = "makedirs" THEN [engine |-> e, disk |-> d, dirs |-> ds, out |-> Returned("None")]
    ELSE IF fault = "open"
    THEN [engine |-> e, disk |-> d, dirs |-> ds \cup {dirname(path)}, out |-> Returned("None")]
    ELSE IF fault = "dump"
    THEN [engine |-> e, disk |-> [d EXCEPT ![path] = Corrupt], dirs |-> ds \cup {dirname(path)},
          out |-> Returned("None")]
    ELSE [engine |-> e, disk |-> [d EXCEPT ![path] = PickleDump(ModelData(e))],
          dirs |-> ds \cup {dirname(path)},
          out |-> Returned("None")]

\* the files, the directories and the outcome of save_model(path) on engine e
SaveModelResult(e, d, ds, path, fault) ==
    IF dirname(path) = ""
    THEN \* line 316: os.makedirs('') raises FileNotFoundError
         [engine |-> e, disk |-> d, dirs |-> ds, out |-> Raised("FileNotFoundError")]
    ELSE IF fault = "makedirs"
    THEN [engine |-> e, disk |-> d, dirs |-> ds, out |-> Raised("PermissionError")]
    ELSE IF fault = "open"
    THEN \* line 324
         [engine |-> e, disk |-> d, dirs |-> ds \cup {dirname(path)},
          out |-> Raised("IsADirectoryError")]
    ELSE IF fault = "dump"
    THEN \* line 325: the file was opened for writing and holds a cut-short pickle
         [engine |-> e, disk |-> [d EXCEPT ![path] = Corrupt], dirs |-> ds \cup {dirname(path)},
          out |-> Raised("OSError")]
    ELSE \* line 325 has written the file; line 332 raises on an unfitted vectorizer
         [engine |-> e, disk |-> [d EXCEPT ![path] = PickleDump(ModelData(e))],
          dirs |-> ds \cup {dirname(path)},
          out |-> IF HasVocabulary(e.vectorizer) THEN Returned("None")
                  ELSE Raised("AttributeError")]

LoadModelNoReset(e, d, path) ==
    IF d[path] = NoFile THEN [engine |-> e, out |-> Returned(FALSE)]
    ELSE IF d[path] = Corrupt THEN [engine |-> e, out |-> Returned(FALSE)]
    ELSE LET items == d[path].items
             e1 == IF HasKey(items, "vectorizer")
                   THEN [e EXCEPT !.vectorizer = Lookup(items, "vectorizer")] ELSE e
             e2 == IF HasKey(items, "vectorizer") /\ HasKey(items, "job_vectors")
                   THEN [e1 EXCEPT !.job_vectors = Lookup(items, "job_vectors")] ELSE e1
         IN IF ~(\A k \in {"vectorizer", "job_vectors", "jobs_df"} : HasKey(items, k))
            THEN [engine |-> e2, out |-> Returned(FALSE)]
            ELSE LET e3 == [e2 EXCEPT !.jobs_df = Lookup(items, "jobs_df")]
                 IN IF ~HasIdf(e3.vectorizer)
                    THEN [engine |-> e3, out |-> Returned(FALSE)]
                    ELSE [engine |-> e3, out |-> Returned(TRUE)]

\* the engine and the outcome of load_model(path) on engine e
LoadModelResult(e, d, path) ==
    IF d[path] = NoFile
    THEN \* line 346-348: the fields are not touched
         [engine |-> e, out |-> Returned(FALSE)]
    ELSE IF d[path] = Corrupt
    THEN \* line 351 raises, line 368-374 resets the fields
         [engine |-> NewEngineState, out |-> Returned(FALSE)]
    ELSE LET items == d[path].items
         IN IF ~(\A k \in {"vectorizer", "job_vectors", "jobs_df"} : HasKey(items, k))
            THEN \* line 353-355 raises KeyError part-way, line 368-374 resets
                 [engine |-> NewEngineState, out |-> Returned(FALSE)]
            ELSE IF ~HasIdf(Lookup(items, "vectorizer"))
            THEN \* line 358-363
                 [engine |-> NewEngineState, out |-> Returned(FALSE)]
            ELSE [engine |-> [vectorizer |-> Lookup(items, "vectorizer"),
                              job_vectors |-> Lookup(items, "job_vectors"),
                              jobs_df |-> Lookup(items, "jobs_df")],
                  out |-> Returned(TRUE)]

(***************************************************************************)
(* The state machine: one engine object, the files, and the calls made on  *)
(* them.  last is the latest call with its arguments and outcome; trained  *)
(* tells whether a train or a load has succeeded on the engine; saved is,  *)
(* per path, the engine as it was when a save_model that returned wrote    *)
(* the file now at the path.                                               *)
(***************************************************************************)
NoSnapshot == [kind |-> "none"]

\* a slot of the thread table that holds no thread
NoThread == [pc |-> "none", result |-> None]

Init ==
    /\ engine = NewEngineState
    /\ disk = [p \in Paths |-> IF dirname(p) = "" THEN PartialBlob ELSE NoFile]
    /\ dirs = {}
    /\ last = [op |-> "init"]
    /\ trained = FALSE
    /\ saved = [p \in Paths |-> NoSnapshot]
    /\ job_fetch_status = [is_running |-> FALSE, progress |-> 0]
    /\ threads = [t \in 1..MaxFetchThreads |-> NoThread]
    /\ credentials = FALSE

\* JobRecommendationEngine(): a new engine object replaces the one at hand
NewEngine ==
    /\ engine' = NewEngineState
    /\ trained' = FALSE
    /\ last' = [op |-> "new"]
    /\ UNCHANGED <<disk, dirs, saved, job_fetch_status, threads, credentials>>

\* train called with one of the given corpora; again tells that the call before
\* this one was a train on the same corpus
TrainCall(corpora) ==
    \E c \in corpora :
        LET r == TrainResult(engine, c)
        IN /\ engine' = r.engine
           /\ trained' = (trained \/ (c.rows # <<>> /\ r.out.kind = "return"))
           /\ last' = [op |-> "train", corpus |-> c, out |-> r.out,
                       again |-> (last.op = "train" /\ last.corpus = c)]
           /\ UNCHANGED <<disk, dirs, saved, job_fetch_status, threads, credentials>>

train == TrainCall(CorpusInputs)

\* calculate_match called with one of the given profiles
CalculateMatchCall(profiles) ==
    \E profile \in profiles, top_n \in TopNInputs :
        LET r == CalculateMatchResult(engine, profile, top_n)
        IN /\ engine' = r.engine
           /\ last' = [op |-> "calculate_match", profile |-> profile, top_n |-> top_n,
                       out |-> r.out]
           /\ UNCHANGED <<disk, dirs, trained, saved, job_fetch_status, threads,
                        credentials>>

calculate_match == CalculateMatchCall(ProfileInputs)

save_model ==
    \E path \in Paths, fault \in SaveFaults :
        LET r == SaveModelResult(engine, disk, dirs, path, fault)
        IN /\ engine' = r.engine
           /\ disk' = r.disk
           /\ dirs' = r.dirs
           /\ saved' = [saved EXCEPT ![path] =
                           IF r.out.kind = "return" THEN engine
                           ELSE IF r.disk[path] # disk[path] THEN NoSnapshot
                           ELSE @]
           /\ last' = [op |-> "save_model", path |-> path, out |-> r.out]
           /\ UNCHANGED <<trained, job_fetch_status, threads, credentials>>

load_model ==
    \E path \in Paths :
        LET r == LoadModelResult(engine, disk, path)
        IN /\ engine' = r.engine
           /\ trained' = (trained \/ r.out.value)
           /\ last' = [op |-> "load_model", path |-> path,
                       fresh |-> (engine = NewEngineState), out |-> r.out]
           /\ UNCHANGED <<disk, dirs, saved, job_fetch_status, threads, credentials>>

Next == NewEngine \/ train \/ calculate_match \/ save_model \/ load_model

Spec == Init /\ [][Next]_vars

\* _parse_experience_years called on its own; its body is inside a try whose
\* handler returns None, so the call always returns
parse_experience_years ==
    \E exp_string \in ExperienceInputs :
        /\ last' = [op |-> "_parse_experience_years", exp_string |-> exp_string,
                    out |-> Returned(_parse_experience_years(exp_string))]
        /\ UNCHANGED <<engine, disk, dirs, trained, saved, job_fetch_status, threads,
                     credentials>>

ParseSpec == Init /\ [][parse_experience_years]_vars

\* the engine alone, trained on every corpus and queried with every profile of
\* the model
train_scoring == TrainCall(CorpusInputs \cup MoreCorpusInputs)

calculate_match_scoring == CalculateMatchCall(ProfileInputs \cup MoreProfileInputs)

ScoringNext == train_scoring \/ calculate_match_scoring

ScoringSpec == Init /\ [][ScoringNext]_vars

(***************************************************************************)
(* The background job fetch of server.py: the status dict                  *)
(* job_fetch_status, the threads that run background_job_fetch, and the    *)
(* handler of POST /api/fetch-jobs that starts them.  Of the status dict   *)
(* the model keeps is_running and progress.  A thread is at the line it    *)
(* executes next; result is its local variable of that name.  The server   *)
(* runs with threaded=False (server.py:1108-1112), so one handler runs at  *)
(* a time, while the background threads interleave with the handlers and   *)
(* with each other between any two statements.                             *)
(***************************************************************************)
pickle_file == "models/recommendation_model.pkl"

\* the parameters of fetch_and_save_jobs (src/scrapers.py:298)
FetchParameters == {"app_id", "app_key"}

\* the arguments of the call at server.py:852
FetchArguments == {"app_id", "app_key", "progress_callback"}

\* fetch_and_save_jobs called with the given arguments: a keyword the function
\* does not take is a TypeError at the call; otherwise the function returns the
\* fetched postings, or None (it catches what its body raises)
FetchOutcomes(arguments) ==
    IF arguments \subseteq FetchParameters
    THEN {Returned(None)} \cup {Returned(c) : c \in CorpusInputs}
    ELSE {Raised("TypeError")}

\* the statements of background_job_fetch that end the thread
LastStatements == {"l879", "l884", "l890"}

StatusWriteKeepsRunning(pc, status) ==
    CASE pc = "l819" -> [status EXCEPT !.is_running = TRUE]
      [] pc = "l820" -> [status EXCEPT !.progress = 10]
      [] pc = "l839" -> [status EXCEPT !.progress = 20]
      [] pc = "l855" -> [status EXCEPT !.progress = 70]
      [] pc = "l877" -> [status EXCEPT !.progress = 100]
      [] pc = "l879" -> [status EXCEPT !.is_running = FALSE]
      [] pc = "l882" -> [status EXCEPT !.progress = 0]
      [] pc = "l884" -> [status EXCEPT !.is_running = FALSE]
      [] pc = "l888" -> [status EXCEPT !.progress = 0]
      [] OTHER -> status

\* job_fetch_status after the statement at pc of background_job_fetch
StatusWrite(pc, status) ==
    CASE pc = "l819" -> [status EXCEPT !.is_running = TRUE]
      [] pc = "l820" -> [status EXCEPT !.progress = 10]
      [] pc = "l839" -> [status EXCEPT !.progress = 20]
      [] pc = "l855" -> [status EXCEPT !.progress = 70]
      [] pc = "l877" -> [status EXCEPT !.progress = 100]
      [] pc = "l879" -> [status EXCEPT !.is_running = FALSE]
      [] pc = "l882" -> [status EXCEPT !.progress = 0]
      [] pc = "l884" -> [status EXCEPT !.is_running = FALSE]
      [] pc = "l888" -> [status EXCEPT !.progress = 0]
      [] pc = "l890" -> [status EXCEPT !.is_running = FALSE]
      [] OTHER -> status

\* one statement of a thread th of background_job_fetch, on the files d and the
\* directories ds: r is what the call of line 852 comes to, removed tells
\* whether os.remove of line 827 succeeds, t is the outcome of train on a new
\* engine (line 866) and s of save_model on that engine (line 869); an
\* exception of either call leaves the try block.  Gives the thread, the files
\* and the directories afterwards.
ThreadStep(th, d, ds, r, removed, t, s) ==
    LET same(pc) == [thread |-> [th EXCEPT !.pc = pc], disk |-> d, dirs |-> ds]
    IN CASE th.pc = "l819" -> same("l820")
         [] th.pc = "l820" -> same("l825")
         [] th.pc = "l825" ->
              [thread |-> [th EXCEPT !.pc = "l839"],
               disk |-> IF d[pickle_file] # NoFile /\ removed
                        THEN [d EXCEPT ![pickle_file] = NoFile] ELSE d,
               dirs |-> ds]
         [] th.pc = "l839" -> same("l852")
         [] th.pc = "l852" ->
              IF r.kind = "raise" THEN same("l888")
              ELSE IF r.value # None /\ r.value.rows # <<>>
              THEN [thread |-> [pc |-> "l855", result |-> r.value], disk |-> d, dirs |-> ds]
              ELSE same("l882")
         [] th.pc = "l855" -> same("l866")
         [] th.pc = "l866" ->
              IF t.out.kind = "raise" THEN same("l888")
              ELSE [thread |-> [th EXCEPT !.pc = IF s.out.kind = "raise" THEN "l888"
                                                 ELSE "l877"],
                    disk |-> s.disk, dirs |-> s.dirs]
         [] th.pc = "l877" -> same("l879")
         [] th.pc = "l882" -> same("l884")
         [] th.pc = "l888" -> same("l890")
         [] th.pc \in LastStatements ->
              [thread |-> [pc |-> "done", result |-> None], disk |-> d, dirs |-> ds]

\* the threads that were started and have not finished
Unfinished == {t \in 1..MaxFetchThreads : threads[t].pc \notin {"none", "done"}}

\* the corpus a thread trains its engine on: its result at line 866, and an
\* empty one at the other statements, which do not train
TrainedAt(th) == IF th.pc = "l866" THEN th.result ELSE DataFrame(AllCols, <<>>)

\* thread t of background_job_fetch executes its next statement
BackgroundStep(t) ==
    /\ t \in Unfinished
    /\ LET th == threads[t]
       IN \E r \in (IF th.pc = "l852" THEN FetchOutcomes(FetchArguments)
                    ELSE {Returned(None)}),
             removed \in (IF th.pc = "l825" /\ disk[pickle_file] # NoFile THEN BOOLEAN
                          ELSE {TRUE}),
             fault \in (IF th.pc = "l866" THEN SaveFaults ELSE {"none"}) :
            \E tr \in {TrainResult(NewEngineState, TrainedAt(th))} :
              \E sv \in {SaveModelResult(tr.engine, disk, dirs, pickle_file, fault)} :
                LET step == ThreadStep(th, disk, dirs, r, removed, tr, sv)
                IN /\ threads' = [threads EXCEPT ![t] = step.thread]
                   /\ job_fetch_status' = StatusWrite(th.pc, job_fetch_status)
                   /\ disk' = step.disk
                   /\ dirs' = step.dirs
                   /\ saved' = [saved EXCEPT ![pickle_file] =
                                   IF step.disk[pickle_file] # disk[pickle_file]
                                   THEN NoSnapshot ELSE @]
                   /\ UNCHANGED <<engine, last, trained, credentials>>

\* some thread of background_job_fetch executes its next statement
background_job_fetch == \E t \in 1..MaxFetchThreads : BackgroundStep(t)

\* the response of fetch_jobs_api, and whether it starts a thread, for the
\* status dict it finds; configured tells that both credentials are set
FetchJobsResponse(status, configured) ==
    IF status.is_running
    THEN [code |-> 400, message |-> "Job fetch already in progress", start |-> FALSE]
    ELSE IF ~configured
    THEN [code |-> 400, message |-> "API credentials not configured", start |-> FALSE]
    ELSE [code |-> 200, message |-> "Fetching the latest job listings", start |-> TRUE]

\* the slots of the thread table a new thread can take
FreeSlots == {t \in 1..MaxFetchThreads : threads[t].pc \in {"none", "done"}}

\* POST /api/fetch-jobs; unfinished is the number of fetches that were
\* started and have not finished when the request arrives
fetch_jobs_api ==
    LET response == FetchJobsResponse(job_fetch_status, credentials)
    IN /\ response.start => FreeSlots # {}
       /\ threads' = IF response.start
                     THEN [threads EXCEPT ![CHOOSE t \in FreeSlots : \A u \in FreeSlots : t <= u] =
                                              [pc |-> "l819", result |-> None]]
                     ELSE threads
       /\ last' = [op |-> "fetch_jobs_api", code |-> response.code,
                   message |-> response.message, started |-> response.start,
                   unfinished |-> Cardinality(Unfinished)]
       /\ UNCHANGED <<engine, disk, dirs, trained, saved, job_fetch_status, credentials>>

\* the server at its start: the credentials are in the environment or not, and
\* the model file is there from an earlier run or not
FetchInit ==
    /\ engine = NewEngineState
    /\ disk \in {[p \in Paths |-> NoFile],
                 [p \in Paths |-> IF p = pickle_file THEN PartialBlob ELSE NoFile]}
    /\ dirs = {}
    /\ last = [op |-> "init"]
    /\ trained = FALSE
    /\ saved = [p \in Paths |-> NoSnapshot]
    /\ job_fetch_status = [is_running |-> FALSE, progress |-> 0]
    /\ threads = [t \in 1..MaxFetchThreads |-> NoThread]
    /\ credentials \in BOOLEAN

FetchNext == fetch_jobs_api \/ background_job_fetch

FetchSpec == FetchInit /\ [][FetchNext]_vars

\* the server process keeps running and the interpreter schedules every
\* started thread again and again until it ends
FetchFairSpec ==
    FetchInit /\ [][FetchNext]_vars /\ \A t \in 1..MaxFetchThreads : WF_vars(BackgroundStep(t))

(***************************************************************************)
(* POST /api/recommendations (server.py, get_job_recommendations): the     *)
(* handler loads the postings, filters them by the user's location, trains *)
(* an engine of its own on what it kept, saves it, and asks it for the     *)
(* top_n matches.                                                          *)
(***************************************************************************)
\* the JSON bodies of the requests: with a location, with a top_n, or with
\* skills alone
RequestInputs ==
    {[skills |-> <<"Python">>, location |-> l] : l \in LocationInputs}
    \cup {[skills |-> <<"Python">>, location |-> "Any", top_n |-> n] : n \in TopNInputs}
    \cup {[skills |-> <<"Python", "Django">>]}

\* the profile the handler builds from the request (lines 431-437)
UserProfileOf(data) ==
    Profile(get(data, "skills", <<>>),
            get(data, "role", <<"Software", "Engineer">>),
            get(data, "experience", ExpText(<<0, 2>>, <<"years">>)),
            get(data, "location", "Bangalore"))

\* top_n of the request, between 1 and 25 (lines 428-429)
TopNOf(data) == Max(Min(get(data, "top_n", 10), 25), 1)

\* the response of the handler when load_recent_jobs gives jobs_df, with the
\* files and directories it leaves: kept is the corpus after the location
\* filter, t the outcome of train on a new engine, s of save_model on the
\* files d and the directories ds, m of calculate_match; model is the engine
\* that was saved
GetJobRecommendations(jobs_df, kept, t, s, m, d, ds) ==
    LET untouched(code, message) ==
            [code |-> code, message |-> message, data |-> <<>>,
             disk |-> d, dirs |-> ds, model |-> NoSnapshot]
    IN IF jobs_df.rows = <<>>
       THEN \* line 442-447
            untouched(200, "No job data available")
       ELSE IF kept.rows = <<>>
       THEN \* line 466-471
            untouched(200, "No jobs found")
       ELSE IF t.out.kind = "raise"
       THEN \* line 479 raises, line 498-500
            untouched(500, "error")
       ELSE \* line 482-485: what save_model raises is logged and dropped
            [code |-> IF m.out.kind = "raise" THEN 500 ELSE 200,
             message |-> IF m.out.kind = "raise" THEN "error" ELSE "recommendations",
             data |-> IF m.out.kind = "raise" THEN <<>> ELSE m.out.value,
             disk |-> s.disk, dirs |-> s.dirs,
             model |-> IF s.out.kind = "return" THEN t.engine ELSE NoSnapshot]

get_job_recommendations ==
    \E data \in RequestInputs, jobs_df \in LoadedCorpora, fault \in SaveFaults :
      \E kept \in {LocationFilter(jobs_df, UserProfileOf(data).location)} :
        \E t \in {TrainResult(NewEngineState, kept)} :
          \E s \in {SaveModelResult(t.engine, disk, dirs, pickle_file, fault)},
             m \in {CalculateMatchResult(t.engine, UserProfileOf(data), TopNOf(data))} :
            LET r == GetJobRecommendations(jobs_df, kept, t, s, m, disk, dirs)
            IN /\ disk' = r.disk
               /\ dirs' = r.dirs
               /\ saved' = [saved EXCEPT ![pickle_file] =
                               IF r.model # NoSnapshot THEN r.model
                               ELSE IF r.disk[pickle_file] # disk[pickle_file]
                               THEN NoSnapshot
                               ELSE @]
               /\ last' = [op |-> "get_job_recommendations", request |-> data,
                           jobs_df |-> jobs_df, kept |-> kept, code |-> r.code,
                           message |-> r.message, data |-> r.data]
               /\ UNCHANGED <<engine, trained, job_fetch_status, threads, credentials>>

RecommendSpec == Init /\ [][get_job_recommendations]_vars

(***************************************************************************)
(* Properties                                                              *)
(***************************************************************************)
\* the outcome calculate_match would have on engine e
MatchOut(e, profile, top_n) == CalculateMatchResult(e, profile, top_n).out

\* calculate_match returns an empty result on e, whatever it is called with
AlwaysEmpty(e) ==
    \A profile \in ProfileInputs, top_n \in TopNInputs :
        MatchOut(e, profile, top_n) = Returned(<<>>)

JobIds(c) == {c.rows[i].job_id : i \in DOMAIN c.rows}

\* C1: on an engine on which no train and no load has ever succeeded,
\* calculate_match returns an empty result and raises nothing, for every
\* profile and every top_n.
C1_UntrainedMatchIsEmpty ==
    (last.op = "calculate_match" /\ ~trained) => last.out = Returned(<<>>)

\* C1 witness: calculate_match with a profile that is no dict, on an engine whose
\* only train raised after it had stored the corpus
C1_Witness ==
    /\ last.op = "calculate_match"
    /\ ~trained
    /\ engine.jobs_df # None
    /\ ~last.profile.isdict
    /\ last.out = Returned(<<>>)

\* the fields of e hold nothing that comes from another corpus than c
DerivedOnlyFrom(e, c) ==
    /\ e.jobs_df \in {None, c, WithCombinedText(c)}
    /\ \/ e.vectorizer \in {None, UnfittedVectorizer}
       \/ /\ HasTextColumns(c)
          /\ e.vectorizer = FittedVectorizer(FitTransform[c].idf)
    /\ \/ e.job_vectors = None
       \/ /\ HasTextColumns(c)
          /\ e.job_vectors = Matrix(FitTransform[c].vectors)

\* C2: train fully replaces prior state: after any sequence of calls ending in
\* train(c2), the vectorizer, the job vectors and the corpus snapshot are all
\* derived from c2 only, and calculate_match returns postings of c2 only.
C2_TrainReplacesPriorState ==
    last.op = "train" =>
        /\ DerivedOnlyFrom(engine, last.corpus)
        /\ \A profile \in ProfileInputs, top_n \in TopNInputs :
              LET out == MatchOut(engine, profile, top_n)
              IN out.kind = "return" =>
                    \A i \in DOMAIN out.value : out.value[i].job_id \in JobIds(last.corpus)

\* C3: train with an empty corpus raises nothing and leaves the engine in the
\* untrained state, from any prior engine state: a calculate_match that follows
\* returns an empty result.
C3_EmptyTrainLeavesUntrained ==
    (last.op = "train" /\ last.corpus.rows = <<>>) =>
        /\ last.out = Returned("None")
        /\ ~HasIdf(engine.vectorizer)
        /\ AlwaysEmpty(engine)

\* C4: calculate_match only reads the engine: whether it returns rows, returns
\* empty or raises, the three fields are the same after the call as before it,
\* and the same call made again returns the same result.
C4_CalculateMatchOnlyReads ==
    [][last'.op = "calculate_match" =>
          /\ engine' = engine
          /\ MatchOut(engine', last'.profile, last'.top_n) = last'.out]_vars

\* C4 witness: a calculate_match that returned rows
C4_Witness ==
    /\ last.op = "calculate_match"
    /\ last.out.kind = "return"
    /\ Len(last.out.value) = MaxTopN

\* the file cannot be deserialized, lacks one of the three fields, or holds a
\* vectorizer without an IDF table
Unloadable(file) ==
    \/ file = Corrupt
    \/ /\ file.kind = "pickle"
       /\ \/ \E k \in {"vectorizer", "job_vectors", "jobs_df"} : ~HasKey(file.items, k)
          \/ ~HasIdf(Lookup(file.items, "vectorizer"))

\* C5: when the file cannot be deserialized, lacks one of the three fields or
\* holds an unfitted vectorizer, load returns False without raising and leaves
\* all three fields unset, whatever state the engine had before.
C5_FailedLoadResetsAllFields ==
    (last.op = "load_model" /\ Unloadable(disk[last.path])) =>
        /\ last.out = Returned(FALSE)
        /\ engine = NewEngineState

\* C5 witness: a load of a complete blob with an unfitted vectorizer into an
\* engine that held fields before
C5_Witness ==
    /\ last.op = "load_model"
    /\ ~last.fresh
    /\ disk[last.path].kind = "pickle"
    /\ \A k \in {"vectorizer", "job_vectors", "jobs_df"} : HasKey(disk[last.path].items, k)
    /\ Lookup(disk[last.path].items, "vectorizer") = UnfittedVectorizer
    /\ engine = NewEngineState

\* C6: load on a path where no file exists returns False without raising, and
\* the engine is in the untrained state after the call, from any prior engine
\* state (a following calculate_match returns an empty result).
C6_MissingFileLeavesUntrained ==
    (last.op = "load_model" /\ disk[last.path] = NoFile) =>
        /\ last.out = Returned(FALSE)
        /\ ~HasIdf(engine.vectorizer)
        /\ AlwaysEmpty(engine)

\* C7: round trip: after a save_model that returned, load_model of the file it
\* wrote returns True, and calculate_match on the loading engine returns the
\* same rows, in the same order and with the same scores, as on the saving
\* engine, for every profile and top_n.
C7_SaveLoadRoundTrip ==
    (last.op = "load_model" /\ saved[last.path] # NoSnapshot) =>
        /\ last.out = Returned(TRUE)
        /\ \A profile \in ProfileInputs, top_n \in TopNInputs :
              MatchOut(engine, profile, top_n) = MatchOut(saved[last.path], profile, top_n)

\* C7 witness: a fresh engine has loaded what an engine trained on three
\* postings saved, and calculate_match returns rows on it
C7_Witness ==
    /\ last.op = "load_model"
    /\ last.fresh
    /\ saved[last.path] # NoSnapshot
    /\ Len(saved[last.path].jobs_df.rows) = 3
    /\ \E profile \in ProfileInputs :
          /\ MatchOut(engine, profile, MaxTopN).kind = "return"
          /\ Len(MatchOut(engine, profile, MaxTopN).value) = MaxTopN

\* C8: a save_model that returns has created the parent directory and written
\* the three fields as one blob; a save_model that did not do so raised the
\* wrapped error; and save_model leaves the engine's fields as they were.
C8_SaveRaisesEveryFailure ==
    [][last'.op = "save_model" =>
          /\ engine' = engine
          /\ last'.out.kind \in {"return", "raise"}
          /\ last'.out.kind = "return" =>
                /\ dirname(last'.path) \in dirs'
                /\ disk'[last'.path] = PickleDump(ModelData(engine))
          /\ last'.out.kind = "raise" => last'.out.error.kind = "CustomException"]_vars

\* C8 witness: a save_model whose pickle.dump failed part-way has raised
C8_Witness ==
    /\ last.op = "save_model"
    /\ last.out = Raised("OSError")
    /\ disk[last.path] = Corrupt
    /\ HasIdf(engine.vectorizer)

\* train fails after line 45 on corpus c: a text column is missing, or the
\* vocabulary is empty
FittingFails(c) ==
    /\ c.rows # <<>>
    /\ \/ ~HasTextColumns(c)
       \/ CorpusTerms(Docs(c)) = {}

\* C9: any exception raised while train builds the combined text or fits the
\* vectorizer on a non-empty corpus is re-raised as the CustomException that
\* carries the original exception; train never returns normally then.
C9_TrainReraisesFittingFailure ==
    (last.op = "train" /\ FittingFails(last.corpus)) =>
        /\ last.out.kind = "raise"
        /\ last.out.error \in {CustomException("KeyError"), CustomException("ValueError")}

\* C9 witness: fit_transform raised on a corpus of stop words
C9_Witness ==
    /\ last.op = "train"
    /\ HasTextColumns(last.corpus)
    /\ FittingFails(last.corpus)
    /\ last.out = Raised("ValueError")

\* C10: each of match_score, skills_match, experience_match and location_match
\* of every returned row lies in [0,100].
C10_ScoresWithinPercentRange ==
    (last.op = "calculate_match" /\ last.out.kind = "return") =>
        \A i \in DOMAIN last.out.value :
            LET row == last.out.value[i]
            IN /\ row.match_score \in 0..Unit
               /\ row.skills_match \in 0..Unit
               /\ row.experience_match \in 0..Unit
               /\ row.location_match \in 0..Unit

\* C10 witness: a returned row with a full skills match and a full location match
C10_Witness ==
    /\ last.op = "calculate_match"
    /\ last.out.kind = "return"
    /\ \E i \in DOMAIN last.out.value :
          /\ last.out.value[i].skills_match = Unit
          /\ last.out.value[i].location_match = Unit
          /\ last.out.value[i].match_score > 0

\* C11: weight conservation: for every returned posting, match_score is
\* 100 * (0.7 * skills + 0.2 * experience + 0.1 * location) rounded to 2 decimals,
\* with the posting's own three sub-scores: ten times the score is within half
\* a unit of 7 * skills_match + 2 * experience_match + location_match.
C11_WeightConservation ==
    (last.op = "calculate_match" /\ last.out.kind = "return") =>
        \A i \in DOMAIN last.out.value :
            LET row == last.out.value[i]
                weighted == 7 * row.skills_match + 2 * row.experience_match
                            + row.location_match
            IN /\ 10 * row.match_score - weighted \in -5..5
               /\ row.match_score \in 0..Unit

\* C11 witness: a returned row in which all three sub-scores count and the
\* weighted sum had to be rounded
C11_Witness ==
    /\ last.op = "calculate_match"
    /\ last.out.kind = "return"
    /\ \E i \in DOMAIN last.out.value :
          LET row == last.out.value[i]
          IN /\ row.skills_match \in 1..(Unit - 1)
             /\ row.experience_match > 0
             /\ row.location_match > 0
             /\ (7 * row.skills_match + 2 * row.experience_match + row.location_match) % 10 # 0

\* calculate_match returned rows on an engine with a fitted vectorizer
ReturnedOnTrained ==
    /\ last.op = "calculate_match"
    /\ last.out.kind = "return"
    /\ engine.jobs_df # None
    /\ HasIdf(engine.vectorizer)

\* C12: on a trained engine with N postings, calculate_match(profile, top_n)
\* returns min(top_n, N) rows, each a scored posting of the corpus, in
\* non-increasing order of match_score, and no posting left out has a higher
\* match_score than a returned one.
C12_TopNDescending ==
    ReturnedOnTrained =>
        LET out == last.out.value
            all == ScoredRows(engine, last.profile)
            left_out == {j \in DOMAIN all : \A i \in DOMAIN out : out[i].job_id # all[j].job_id}
        IN /\ Len(out) = Min(last.top_n, Len(engine.jobs_df.rows))
           /\ \A i \in DOMAIN out : \E j \in DOMAIN all : out[i] = all[j]
           /\ \A i, k \in DOMAIN out : i # k => out[i].job_id # out[k].job_id
           /\ \A i \in 1..(Len(out) - 1) : out[i].match_score >= out[i + 1].match_score
           /\ \A j \in left_out, i \in DOMAIN out : all[j].match_score <= out[i].match_score

\* C12 witness: two of three postings returned, the better one first, the
\* posting left out scored below both
C12_Witness ==
    /\ ReturnedOnTrained
    /\ Len(engine.jobs_df.rows) = 3
    /\ last.top_n = 2
    /\ Len(last.out.value) = 2
    /\ last.out.value[1].match_score > last.out.value[2].match_score
    /\ \E j \in DOMAIN ScoredRows(engine, last.profile) :
          ScoredRows(engine, last.profile)[j].match_score < last.out.value[2].match_score

\* the posting of the engine's corpus a returned row is about
PostingOf(e, row) ==
    e.jobs_df.rows[CHOOSE j \in DOMAIN e.jobs_df.rows : e.jobs_df.rows[j].job_id = row.job_id]

\* the range a posting's experience text parses to (None when it has none)
JobYears(posting) == _parse_experience_years(StrOfExp(posting.experience))

\* the user's experience is a text with one number in it
HasPointEstimate(profile) ==
    /\ "experience" \in DOMAIN profile
    /\ Len(profile.experience.nums) = 1

\* C13: for a posting whose experience parses to [lo,hi] and a user whose point
\* estimate u satisfies lo <= u <= hi, u = lo and u = hi included,
\* calculate_match reports experience_match = 100 for that posting.
C13_ExperienceBoundary ==
    (ReturnedOnTrained /\ HasPointEstimate(last.profile)) =>
        \A i \in DOMAIN last.out.value :
            LET row == last.out.value[i]
                u == last.profile.experience.nums[1]
                job_years == JobYears(PostingOf(engine, row))
            IN (job_years # None /\ job_years.lo <= u /\ u <= job_years.hi) =>
                   row.experience_match = Unit

\* the profile names no location: the key is missing, the text is empty, or it
\* is the word any in some letter case
NoLocationPreference(profile) ==
    \/ "location" \notin DOMAIN profile
    \/ profile.location \in {"", "any", "Any", "ANY"}

\* C14: when the user's location is empty, missing or 'any' in any letter case,
\* every posting gets location_match = 100, whatever its own location is, a
\* missing one included.
C14_NoLocationPreferenceMatchesAll ==
    (ReturnedOnTrained /\ NoLocationPreference(last.profile)) =>
        \A i \in DOMAIN last.out.value : last.out.value[i].location_match = Unit

\* C14 witness: a profile without a location key, the whole corpus returned,
\* one posting of it without a location
C14_Witness ==
    /\ ReturnedOnTrained
    /\ "location" \notin DOMAIN last.profile
    /\ Len(last.out.value) = Len(engine.jobs_df.rows)
    /\ \E i \in DOMAIN last.out.value :
          /\ PostingOf(engine, last.out.value[i]).location = NaNLoc
          /\ last.out.value[i].location_match = Unit

\* calculate_match returned rows for a profile that names a specific location
ReturnedForLocation ==
    /\ ReturnedOnTrained
    /\ ~NoLocationPreference(last.profile)

\* C15: when the user gives a specific location, the user's location and the
\* posting's raw location are both normalized to a canonical city name; a
\* posting whose canonical name equals the user's canonical name, or whose
\* canonical name is remote, gets location_match = 100.
C15_CanonicalMatchScoresFull ==
    ReturnedForLocation =>
        \A i \in DOMAIN last.out.value :
            LET row == last.out.value[i]
                job_city == normalize_location(PostingOf(engine, row).location)
                user_city == normalize_location(last.profile.location)
            IN (job_city = user_city \/ job_city = "Remote") => row.location_match = Unit

\* C16: location hard filter: when the user gives a specific location, a posting
\* whose normalized location differs from the user's normalized location and is
\* not remote has location_match = 0 and a match_score of at most 90, and
\* location_match only takes the values 0 and 100.
C16_LocationHardFilter ==
    ReturnedForLocation =>
        \A i \in DOMAIN last.out.value :
            LET row == last.out.value[i]
                job_city == normalize_location(PostingOf(engine, row).location)
                user_city == normalize_location(last.profile.location)
            IN /\ row.location_match \in {0, Unit}
               /\ (job_city # user_city /\ job_city # "Remote") =>
                      /\ row.location_match = 0
                      /\ row.match_score <= 9 * (Unit \div 10)

\* the user's skills of a profile
UserSkills(profile) == IF "skills" \in DOMAIN profile THEN profile.skills ELSE <<>>

\* the skills a posting lists, in its order, surrounding blanks and letter case
\* set aside; none when the skills text is missing
ListedSkills(posting) ==
    IF posting.skills = NaN THEN <<>>
    ELSE [k \in DOMAIN posting.skills |-> Lower(Strip(posting.skills[k]))]

\* the user's skills with surrounding blanks and letter case set aside
UserSkillsIgnoringBlanks(profile) ==
    {Lower(Strip(UserSkills(profile)[k])) : k \in DOMAIN UserSkills(profile)}

\* the user's skills as given, letter case set aside
UserSkillsAsGiven(profile) ==
    {Lower(UserSkills(profile)[k]) : k \in DOMAIN UserSkills(profile)}

\* C17 as stated: every entry of matched_skills is, letter case and surrounding
\* blanks ignored, a skill of the posting and a skill of the user, and every
\* posting skill that the user has appears in matched_skills; a posting with
\* missing skills text has empty matched_skills.
C17_MatchedSkillsIgnoringBlanks ==
    ReturnedOnTrained =>
        \A i \in DOMAIN last.out.value :
            LET row == last.out.value[i]
                listed == ListedSkills(PostingOf(engine, row))
                user == UserSkillsIgnoringBlanks(last.profile)
            IN /\ \A k \in DOMAIN row.matched_skills :
                      /\ row.matched_skills[k] \in Range(listed)
                      /\ row.matched_skills[k] \in user
               /\ \A k \in DOMAIN listed :
                      listed[k] \in user => listed[k] \in Range(row.matched_skills)
               /\ PostingOf(engine, row).skills = NaN => row.matched_skills = <<>>

\* C17 amended: every entry of matched_skills is, letter case and surrounding
\* blanks ignored, a skill of the posting and a skill of the user, and every
\* posting skill that equals, letter case ignored, a user skill as the user
\* gave it (blanks around a user skill count) appears in matched_skills; a
\* posting with missing skills text has empty matched_skills.
C17_MatchedSkillsAsGiven ==
    ReturnedOnTrained =>
        \A i \in DOMAIN last.out.value :
            LET row == last.out.value[i]
                listed == ListedSkills(PostingOf(engine, row))
            IN /\ \A k \in DOMAIN row.matched_skills :
                      /\ row.matched_skills[k] \in Range(listed)
                      /\ row.matched_skills[k] \in UserSkillsIgnoringBlanks(last.profile)
               /\ \A k \in DOMAIN listed :
                      listed[k] \in UserSkillsAsGiven(last.profile)
                          => listed[k] \in Range(row.matched_skills)
               /\ PostingOf(engine, row).skills = NaN => row.matched_skills = <<>>

\* C17 witness: a posting lists python and flask, the user gave ' Python' and
\* 'Flask', and matched_skills holds flask only
C17_Witness ==
    /\ ReturnedOnTrained
    /\ \E i \in DOMAIN last.out.value :
          LET row == last.out.value[i]
              listed == ListedSkills(PostingOf(engine, row))
          IN /\ {"python", "flask"} \subseteq Range(listed)
             /\ {" python", "flask"} \subseteq UserSkillsAsGiven(last.profile)
             /\ row.matched_skills = <<"flask">>

\* C18: for every returned posting, missing_skills holds at most 5 entries,
\* each a skill of the posting that is not, letter case ignored, a user skill;
\* they are the first such skills in the order in which the posting lists
\* them; matched_skills and missing_skills share no entry.
C18_MissingSkillsFirstFive ==
    ReturnedOnTrained =>
        \A i \in DOMAIN last.out.value :
            LET row == last.out.value[i]
                listed == ListedSkills(PostingOf(engine, row))
                absent == {k \in DOMAIN listed : listed[k] \notin UserSkillsAsGiven(last.profile)}
                nth(m) == CHOOSE k \in absent : Cardinality({j \in absent : j < k}) = m - 1
            IN /\ Len(row.missing_skills) = Min(5, Cardinality(absent))
               /\ \A m \in DOMAIN row.missing_skills : row.missing_skills[m] = listed[nth(m)]
               /\ Range(row.matched_skills) \cap Range(row.missing_skills) = {}

\* C18 witness: a posting lists six skills the user lacks and one the user
\* has; missing_skills holds the first five of the six
C18_Witness ==
    /\ ReturnedOnTrained
    /\ \E i \in DOMAIN last.out.value :
          LET row == last.out.value[i]
              listed == ListedSkills(PostingOf(engine, row))
          IN /\ Cardinality({k \in DOMAIN listed :
                                listed[k] \notin UserSkillsAsGiven(last.profile)}) = 6
             /\ Len(row.missing_skills) = 5
             /\ row.matched_skills # <<>>
             /\ "aws" \notin Range(row.missing_skills)

\* C19: idempotence of train: a train on the corpus the call before it trained
\* on leaves the engine in a state in which calculate_match returns, for every
\* profile and top_n, what it returned after the first train alone.
C19_TrainTwiceSameResults ==
    [][(last.op = "train" /\ last'.op = "train" /\ last'.corpus = last.corpus) =>
          \A profile \in ProfileInputs \cup MoreProfileInputs, top_n \in TopNInputs :
              MatchOut(engine', profile, top_n) = MatchOut(engine, profile, top_n)]_vars

\* C19 witness: the second of two trains in a row on one corpus of three
\* postings has returned, and calculate_match returns rows
C19_Witness ==
    /\ last.op = "train"
    /\ last.again
    /\ last.out = Returned("None")
    /\ Len(last.corpus.rows) = 3
    /\ \E profile \in ProfileInputs :
          /\ MatchOut(engine, profile, MaxTopN).kind = "return"
          /\ Len(MatchOut(engine, profile, MaxTopN).value) = 3

\* the corpus P1, P2, P3 of the scenario (J1, J2, J3 of the pool) and its profile
ScenarioCorpus == DataFrame(AllCols, RowsOf(<<1, 2, 3>>))

ScenarioProfile ==
    Profile(<<"Python", "Django">>, <<"Software", "Engineer">>,
            ExpText(<<3>>, <<"years">>), "Bangalore")

\* calculate_match(ScenarioProfile, 3) was called on the engine trained on the
\* scenario's corpus
ScenarioCalled ==
    /\ last.op = "calculate_match"
    /\ last.profile = ScenarioProfile
    /\ last.top_n = 3
    /\ engine = TrainedOn(ScenarioCorpus)

\* where a posting stands in the returned rows (0 when it is not returned)
RankOf(job_id) ==
    IF \E i \in DOMAIN last.out.value : last.out.value[i].job_id = job_id
    THEN CHOOSE i \in DOMAIN last.out.value : last.out.value[i].job_id = job_id
    ELSE 0

\* C20: concrete scenario: with the corpus P1 ('Python, Django', '2-5 years',
\* 'Bangalore'), P2 ('Java, Spring', '5-10 years', 'Mumbai'), P3 ('Python, Flask',
\* 'fresher', 'Remote') and the profile skills Python and Django, role Software
\* Engineer, experience '3 years', location Bangalore, top_n = 3, calculate_match
\* returns P1 first and P3 before P2.
C20_ScenarioRanking ==
    ScenarioCalled =>
        /\ last.out.kind = "return"
        /\ RankOf("J1") = 1
        /\ RankOf("J3") > 0
        /\ RankOf("J2") > 0
        /\ RankOf("J3") < RankOf("J2")

\* C20 witness: the scenario's call has returned its three postings, with
\* three different scores
C20_Witness ==
    /\ ScenarioCalled
    /\ last.out.kind = "return"
    /\ Len(last.out.value) = 3
    /\ last.out.value[1].match_score > last.out.value[2].match_score
    /\ last.out.value[2].match_score > last.out.value[3].match_score

\* the experience_match calculate_match reports for a corpus that holds this
\* one posting only
ExperienceMatchAlone(profile, posting) ==
    _calculate_experience_match(get(profile, "experience", ExpEmpty), <<posting.experience>>)[1]

\* C21: experience match is a pure function per posting: the experience_match
\* reported for a posting depends only on the user's experience and that
\* posting's experience, so it is what the posting gets in a corpus of its own,
\* whatever other postings the corpus holds.
C21_ExperienceMatchPerPosting ==
    ReturnedOnTrained =>
        \A i \in DOMAIN last.out.value :
            last.out.value[i].experience_match
                = ExperienceMatchAlone(last.profile, PostingOf(engine, last.out.value[i]))

\* the posting's experience is empty or missing
NoExperienceText(posting) == posting.experience.na \/ posting.experience = ExpEmpty

\* C22: a posting whose experience is empty, missing or otherwise without a
\* range gets experience_match = 50, for every user experience and in every
\* corpus.
C22_NoRangeScoresHalf ==
    ReturnedOnTrained =>
        \A i \in DOMAIN last.out.value :
            NoExperienceText(PostingOf(engine, last.out.value[i])) =>
                last.out.value[i].experience_match = Unit \div 2

\* C23: for a posting with parsed range [lo,hi] and a user experience u < lo,
\* experience_match = 100 * max(0, 1 - 0.2 * (lo - u)): 20 less per missing
\* year, 0 from a deficit of 5 years on, never negative.
C23_DeficitDecay ==
    (ReturnedOnTrained /\ HasPointEstimate(last.profile)) =>
        \A i \in DOMAIN last.out.value :
            LET row == last.out.value[i]
                u == last.profile.experience.nums[1]
                job_years == JobYears(PostingOf(engine, row))
            IN (job_years # None /\ u < job_years.lo) =>
                   row.experience_match = Max(0, Unit - (job_years.lo - u) * (Unit \div 5))

\* C24: for a posting with parsed range [lo,hi] and a user experience u > hi,
\* experience_match = 90, however far u exceeds hi.
C24_SurplusScoresNinety ==
    (ReturnedOnTrained /\ HasPointEstimate(last.profile)) =>
        \A i \in DOMAIN last.out.value :
            LET row == last.out.value[i]
                u == last.profile.experience.nums[1]
                job_years == JobYears(PostingOf(engine, row))
            IN (job_years # None /\ u > job_years.hi) =>
                   row.experience_match = 9 * (Unit \div 10)

\* C25: experience parsing follows the decision table and never raises: two or
\* more numbers give (first, second); one number n gives (n, n+2); no number
\* gives (0,2) when the text contains fresher or entry, else (5,10) when it
\* contains senior or lead, else (2,5); an empty or missing value gives no
\* range.
C25_ParseDecisionTable ==
    last.op = "_parse_experience_years" =>
        LET x == last.exp_string
            mentions(kw) == \E i \in DOMAIN x.words : kw \in KeywordsIn(Lower(x.words[i]))
            expected ==
                CASE x.na \/ (x.nums = <<>> /\ x.words = <<>>) -> None
                  [] ~x.na /\ Len(x.nums) >= 2 -> YearsRange(x.nums[1], x.nums[2])
                  [] ~x.na /\ Len(x.nums) = 1 -> YearsRange(x.nums[1], x.nums[1] + 2)
                  [] ~x.na /\ x.nums = <<>> /\ x.words # <<>>
                       /\ (mentions("fresher") \/ mentions("entry")) -> YearsRange(0, 2)
                  [] ~x.na /\ x.nums = <<>> /\ x.words # <<>>
                       /\ ~(mentions("fresher") \/ mentions("entry"))
                       /\ (mentions("senior") \/ mentions("lead")) -> YearsRange(5, 10)
                  [] OTHER -> YearsRange(2, 5)
        IN last.out = Returned(expected)

\* C25 witness: a text without a number that contains both senior and fresher
\* was parsed to (0,2)
C25_Witness ==
    /\ last.op = "_parse_experience_years"
    /\ last.exp_string = ExpText(<<>>, <<"senior", "fresher">>)
    /\ last.out = Returned(YearsRange(0, 2))

\* the three fields of e are all unset, or are what a train that ran to its end
\* leaves for one corpus
AllUnsetOrOneCorpus(e) ==
    \/ e = NewEngineState
    \/ \E c \in CorpusInputs :
          /\ TrainResult(NewEngineState, c).out = Returned("None")
          /\ c.rows # <<>>
          /\ e = TrainedOn(c)

\* C26: state consistency: in every state reachable by train, load, save and
\* calculate_match calls, failing and raising ones included, the vectorizer,
\* the job vectors and the corpus snapshot are all unset or all derived from
\* one and the same corpus; a train that raises leaves the three fields as
\* they were before the call.
C26_FieldsConsistent ==
    [][/\ AllUnsetOrOneCorpus(engine')
       /\ (last'.op = "train" /\ last'.out.kind = "raise") => engine' = engine]_vars

\* C27: whenever save_model raises, the call has not created or overwritten the
\* file at filepath; in particular save_model on an untrained engine leaves no
\* model blob on disk.
C27_RaisingSaveWritesNothing ==
    [][(last'.op = "save_model" /\ last'.out.kind = "raise") =>
          disk'[last'.path] = disk[last'.path]]_vars

\* C28: at most one background job fetch runs at a time: in every
\* interleaving of POST /api/fetch-jobs requests and background threads, at
\* most one started fetch is unfinished, and a request that arrives while a
\* started fetch has not finished is rejected with 'Job fetch already in
\* progress' and starts no thread.
C28_OneFetchAtATime ==
    /\ Cardinality(Unfinished) <= 1
    /\ (last.op = "fetch_jobs_api" /\ last.unfinished > 0) =>
           (last.message = "Job fetch already in progress" /\ ~last.started)

\* C29: every started background job fetch comes to its end and sets
\* is_running to False with its last statement; a thread that leaves a failure
\* path (empty result, exception) has written progress 0 on it; and progress
\* becomes 100 only by the statement that follows a train and a save that
\* both returned.
C29_FetchEndsNotRunning ==
    /\ \A t \in 1..MaxFetchThreads :
           (threads[t].pc = "l819") ~>
               (threads[t].pc = "done" /\ ~job_fetch_status.is_running)
    /\ [][\A t \in 1..MaxFetchThreads :
              /\ (threads[t].pc \in {"l882", "l888"} /\ threads'[t] # threads[t]) =>
                     job_fetch_status'.progress = 0
              /\ (threads[t].pc \in LastStatements /\ threads'[t] # threads[t]) =>
                     ~job_fetch_status'.is_running]_vars
    /\ [][(job_fetch_status'.progress = 100 /\ job_fetch_status.progress # 100) =>
              \E t \in 1..MaxFetchThreads :
                  threads[t].pc = "l877" /\ threads'[t].pc = "l879"]_vars

\* a fetch was started by a request, has run to its end through the exception
\* handler, and the status dict says not running, progress 0
C29_Witness ==
    /\ \E t \in 1..MaxFetchThreads : threads[t].pc = "done"
    /\ last.op = "fetch_jobs_api"
    /\ last.started
    /\ ~job_fetch_status.is_running
    /\ job_fetch_status.progress = 0

\* C30: the location pre-filter of the recommendations endpoint and the
\* engine's location policy agree: every posting the handler kept after its
\* location filter and calculate_match returned on the same request has
\* location_match = 100.
C30_FilterAgreesWithEngine ==
    (last.op = "get_job_recommendations" /\ last.code = 200) =>
        \A i \in DOMAIN last.data :
            /\ last.data[i].job_id \in JobIds(last.kept)
            /\ last.data[i].location_match = Unit
====
